---- MODULE Spec2Model ----
(***************************************************************************)
(* Huffman file compressor / decompressor (src/src/main.rs).               *)
(*                                                                         *)
(* main() runs compress(src, dst_compressed) and then                      *)
(* decompress(dst_compressed, dst_decompressed).  The model follows one    *)
(* such run statement by statement.  Option<T> values are sequences of     *)
(* length 0 (None) or 1 (Some).  A String of '0'/'1' characters is a       *)
(* sequence over {"0", "1"}.  A HashMap is a function on its key set.      *)
(* bincode's byte layout is not part of the repository: the compressed     *)
(* file is modelled by the two values serialized into it, in order.        *)
(* BinaryHeap::pop returns a greatest element under Ord; which one of      *)
(* several equal elements it returns depends on the HashMap iteration      *)
(* order and the heap layout, so it is a choice among the greatest ones.   *)
(***************************************************************************)
EXTENDS Integers, Sequences, FiniteSets, TLC

\* Longest source file considered.
MaxLen == 6
\* Number of distinct byte values a source file may hold.
NumBytes == 3
\* The byte values a source file may hold: 0x61 ('a'), 0x62, ...
Bytes == 97 .. (96 + NumBytes)

RECURSIVE SeqsUpTo(_)
SeqsUpTo(n) ==
    IF n = 0 THEN {<<>>}
    ELSE LET shorter == SeqsUpTo(n - 1)
         IN  shorter \cup {Append(s, b) : s \in {t \in shorter : Len(t) = n - 1}, b \in Bytes}

Inputs == SeqsUpTo(MaxLen)

None == <<>>
Some(x) == <<x>>

VARIABLES
    pc,               \* position in main / compress / decompress
    buffer,           \* compress: the bytes read from src
    nodes,            \* create_huffman_tree: the BinaryHeap<ByteNode>
    root,             \* create_zip: Option of the tree root
    huffman_codes,    \* HashMap<u8, String> (create_zip, then decompress)
    huffman_bytes,    \* Vec<u8> of packed code bits (create_zip, then decompress)
    dst_compressed,   \* the compressed file: None or Some([bytes, codes])
    result,           \* decomp: the decoded bytes
    current_code,     \* decomp: the candidate code left when the scan ends
    dst_decompressed, \* the restored file: None or Some(bytes)
    outcome,          \* how main's run ended: "running" (not yet), "returned", "panicked"
    earlier           \* restored file of an earlier run on the same source, if any

vars == <<pc, buffer, nodes, root, huffman_codes, huffman_bytes, dst_compressed,
          result, current_code, dst_decompressed, outcome, earlier>>

----------------------------------------------------------------------------
(* ByteNode and its ordering *)

ByteNode(d, f, l, r) == [data |-> d, frequency |-> f, left |-> l, right |-> r]

Compare(a, b) == IF a < b THEN "Less" ELSE IF a = b THEN "Equal" ELSE "Greater"

\* Ord for ByteNode with the comparison the other way round (a max-heap).
cmp_Forward(self, other) == Compare(self.frequency, other.frequency)

\* impl Ord for ByteNode: reversed on frequency, so the heap is a min-heap.
cmp(self, other) == Compare(other.frequency, self.frequency)

\* The elements BinaryHeap::pop may return: those no other element exceeds.
PopCandidates(heap) == {n \in heap : \A m \in heap : cmp(n, m) # "Less"}

----------------------------------------------------------------------------
(* get_byte_nodes *)

Range(s) == {s[i] : i \in 1 .. Len(s)}

\* freq_map: one entry per byte value that occurs, counting its occurrences.
FreqMap(bytes) ==
    [b \in Range(bytes) |-> Cardinality({i \in 1 .. Len(bytes) : bytes[i] = b})]

get_byte_nodes(bytes) ==
    LET freq_map == FreqMap(bytes)
    IN  {ByteNode(Some(byte), freq_map[byte], None, None) : byte \in DOMAIN freq_map}

----------------------------------------------------------------------------
(* create_huffman_tree *)

\* The parent with the right child's frequency left out of the sum.
ParentNode_LeftOnly(left, right) ==
    ByteNode(None, left.frequency, Some(left), Some(right))

ParentNode(left, right) ==
    ByteNode(None, left.frequency + right.frequency, Some(left), Some(right))

----------------------------------------------------------------------------
(* get_huff_codes / build_huff_codes *)

\* HashMap::insert: a new key is added, an existing key's value is replaced.
Insert(map, k, v) == [x \in (DOMAIN map) \cup {k} |-> IF x = k THEN v ELSE map[x]]

EmptyMap == [x \in {} |-> <<>>]

\* build_huff_codes with the push of '1' for the right child forgotten.
RECURSIVE build_huff_codes_NoRightPush(_, _, _)
build_huff_codes_NoRightPush(node, prefix, huffmap) ==
    IF node.data # None
    THEN Insert(huffmap, node.data[1], prefix)
    ELSE LET afterLeft ==
                 IF node.left # None
                 THEN build_huff_codes_NoRightPush(node.left[1], Append(prefix, "0"), huffmap)
                 ELSE huffmap
         IN  IF node.right # None
             THEN build_huff_codes_NoRightPush(node.right[1], prefix, afterLeft)
             ELSE afterLeft

RECURSIVE build_huff_codes(_, _, _)
build_huff_codes(node, prefix, huffmap) ==
    IF node.data # None
    THEN Insert(huffmap, node.data[1], prefix)
    ELSE LET afterLeft ==
                 IF node.left # None
                 THEN build_huff_codes(node.left[1], Append(prefix, "0"), huffmap)
                 ELSE huffmap
         IN  IF node.right # None
             THEN build_huff_codes(node.right[1], Append(prefix, "1"), afterLeft)
             ELSE afterLeft

get_huff_codes(rt) == build_huff_codes(rt, <<>>, EmptyMap)

----------------------------------------------------------------------------
(* zip_bytes_with_codes *)

\* str_builder: the codes of the bytes, one after the other.
RECURSIVE ConcatCodes(_, _)
ConcatCodes(bytes, huff_codes) ==
    IF bytes = <<>> THEN <<>>
    ELSE huff_codes[Head(bytes)] \o ConcatCodes(Tail(bytes), huff_codes)

\* u8::from_str_radix(byte_str, 2) on a string of 1 to 8 binary digits.
RECURSIVE from_str_radix2(_)
from_str_radix2(byte_str) ==
    IF byte_str = <<>> THEN 0
    ELSE 2 * from_str_radix2(SubSeq(byte_str, 1, Len(byte_str) - 1))
         + (IF byte_str[Len(byte_str)] = "1" THEN 1 ELSE 0)

Min(a, b) == IF a < b THEN a ELSE b

\* str_builder.as_bytes().chunks(8): full chunks of 8, then the shorter rest.
RECURSIVE Chunks8(_)
Chunks8(s) ==
    IF s = <<>> THEN <<>>
    ELSE <<SubSeq(s, 1, Min(8, Len(s)))>> \o Chunks8(SubSeq(s, Min(8, Len(s)) + 1, Len(s)))

zip_bytes_with_codes(bytes, huff_codes) ==
    LET str_builder == ConcatCodes(bytes, huff_codes)
        chunks == Chunks8(str_builder)
    IN  [i \in 1 .. Len(chunks) |-> from_str_radix2(chunks[i])]

----------------------------------------------------------------------------
(* decomp *)

\* format!("{:08b}", byte): the eight binary digits, most significant first.
RECURSIVE FormatBits(_, _)
FormatBits(byte, width) ==
    IF width = 0 THEN <<>>
    ELSE Append(FormatBits(byte \div 2, width - 1), IF byte % 2 = 1 THEN "1" ELSE "0")

format_08b(byte) == FormatBits(byte, 8)

RECURSIVE BitString(_)
BitString(bytes) ==
    IF bytes = <<>> THEN <<>>
    ELSE format_08b(Head(bytes)) \o BitString(Tail(bytes))

\* code_to_byte.get(code): the bytes whose code it is (at most one for the
\* tables get_huff_codes builds; inserts of equal codes would replace).
CodeToByte(codes, code) == {b \in DOMAIN codes : codes[b] = code}

\* The scan of decomp from bit i on: [result, current_code] at the end.
RECURSIVE Scan(_, _, _, _, _)
Scan(codes, bit_string, i, res, cur) ==
    IF i > Len(bit_string) THEN [result |-> res, current_code |-> cur]
    ELSE LET pushed == Append(cur, bit_string[i])
             hit == CodeToByte(codes, pushed)
         IN  IF hit # {}
             THEN Scan(codes, bit_string, i + 1, Append(res, CHOOSE b \in hit : TRUE), <<>>)
             ELSE Scan(codes, bit_string, i + 1, res, pushed)

decomp(codes, bytes) == Scan(codes, BitString(bytes), 1, <<>>, <<>>)

----------------------------------------------------------------------------
(* The run of main *)

\* The source file holds any byte sequence; nothing has run yet.
Init ==
    /\ buffer \in Inputs
    /\ pc = "create_zip"
    /\ nodes = {}
    /\ root = None
    /\ huffman_codes = EmptyMap
    /\ huffman_bytes = <<>>
    /\ dst_compressed = None
    /\ result = <<>>
    /\ current_code = <<>>
    /\ dst_decompressed = None
    /\ outcome = "running"
    /\ earlier = None

\* create_zip, line 41: the heap of leaves.
GetByteNodes ==
    /\ pc = "create_zip"
    /\ nodes' = get_byte_nodes(buffer)
    /\ pc' = "create_huffman_tree"
    /\ UNCHANGED <<buffer, root, huffman_codes, huffman_bytes, dst_compressed,
                   result, current_code, dst_decompressed, outcome, earlier>>

\* create_huffman_tree, one turn of the while loop.
Combine ==
    /\ pc = "create_huffman_tree"
    /\ Cardinality(nodes) > 1
    /\ \E left \in PopCandidates(nodes) :
         \E right \in PopCandidates(nodes \ {left}) :
            nodes' = (nodes \ {left, right}) \cup {ParentNode(left, right)}
    /\ UNCHANGED <<pc, buffer, root, huffman_codes, huffman_bytes, dst_compressed,
                   result, current_code, dst_decompressed, outcome, earlier>>

\* create_huffman_tree, line 73: nodes.pop().unwrap() on the one node left.
PopRoot ==
    /\ pc = "create_huffman_tree"
    /\ Cardinality(nodes) = 1
    /\ \E n \in PopCandidates(nodes) :
         /\ root' = Some(n)
         /\ nodes' = nodes \ {n}
    /\ pc' = "get_huff_codes"
    /\ UNCHANGED <<buffer, huffman_codes, huffman_bytes, dst_compressed,
                   result, current_code, dst_decompressed, outcome, earlier>>

\* create_huffman_tree, line 73 on an empty heap: unwrap of None panics.
PopRootPanic ==
    /\ pc = "create_huffman_tree"
    /\ nodes = {}
    /\ pc' = "aborted"
    /\ outcome' = "panicked"
    /\ UNCHANGED <<buffer, nodes, root, huffman_codes, huffman_bytes, dst_compressed,
                   result, current_code, dst_decompressed, earlier>>

\* create_zip, line 43.
GetHuffCodes ==
    /\ pc = "get_huff_codes"
    /\ huffman_codes' = get_huff_codes(root[1])
    /\ pc' = "zip_bytes_with_codes"
    /\ UNCHANGED <<buffer, nodes, root, huffman_bytes, dst_compressed,
                   result, current_code, dst_decompressed, outcome, earlier>>

\* create_zip, line 44.
ZipBytes ==
    /\ pc = "zip_bytes_with_codes"
    /\ huffman_bytes' = zip_bytes_with_codes(buffer, huffman_codes)
    /\ pc' = "serialize"
    /\ UNCHANGED <<buffer, nodes, root, huffman_codes, dst_compressed,
                   result, current_code, dst_decompressed, outcome, earlier>>

\* compress, lines 35-37: the file is created and both values are written;
\* compress returns and its locals are dropped.
WriteCompressed ==
    /\ pc = "serialize"
    /\ dst_compressed' = Some([huffman_bytes |-> huffman_bytes, huffmap |-> huffman_codes])
    /\ huffman_bytes' = <<>>
    /\ huffman_codes' = EmptyMap
    /\ root' = None
    /\ pc' = "deserialize"
    /\ UNCHANGED <<buffer, nodes, result, current_code, dst_decompressed, outcome, earlier>>

\* decompress, lines 117-119: both values are read back.
ReadCompressed ==
    /\ pc = "deserialize"
    /\ dst_compressed # None
    /\ huffman_bytes' = dst_compressed[1].huffman_bytes
    /\ huffman_codes' = dst_compressed[1].huffmap
    /\ pc' = "decomp"
    /\ UNCHANGED <<buffer, nodes, root, dst_compressed, result, current_code,
                   dst_decompressed, outcome, earlier>>

\* decompress, line 121.
Decomp ==
    /\ pc = "decomp"
    /\ LET d == decomp(huffman_codes, huffman_bytes)
       IN  /\ result' = d.result
           /\ current_code' = d.current_code
    /\ pc' = "write_all"
    /\ UNCHANGED <<buffer, nodes, root, huffman_codes, huffman_bytes, dst_compressed,
                   dst_decompressed, outcome, earlier>>

\* decompress, lines 123-124, and the return to main.
WriteDecompressed ==
    /\ pc = "write_all"
    /\ dst_decompressed' = Some(result)
    /\ outcome' = "returned"
    /\ pc' = "done"
    /\ UNCHANGED <<buffer, nodes, root, huffman_codes, huffman_bytes, dst_compressed,
                   result, current_code, earlier>>

Next ==
    \/ GetByteNodes
    \/ Combine
    \/ PopRoot
    \/ PopRootPanic
    \/ GetHuffCodes
    \/ ZipBytes
    \/ WriteCompressed
    \/ ReadCompressed
    \/ Decomp
    \/ WriteDecompressed

Spec == Init /\ [][Next]_vars

\* main run once more on the same source file, the first restored file kept
\* aside for comparison.
RunAgain ==
    /\ pc = "done"
    /\ earlier = None
    /\ earlier' = dst_decompressed
    /\ pc' = "create_zip"
    /\ nodes' = {}
    /\ root' = None
    /\ huffman_codes' = EmptyMap
    /\ huffman_bytes' = <<>>
    /\ dst_compressed' = None
    /\ result' = <<>>
    /\ current_code' = <<>>
    /\ dst_decompressed' = None
    /\ outcome' = "running"
    /\ UNCHANGED buffer

NextTwice == Next \/ RunAgain

SpecTwice == Init /\ [][NextTwice]_vars

----------------------------------------------------------------------------
(* Properties *)

RECURSIVE SumFrequency(_)
SumFrequency(heap) ==
    IF heap = {} THEN 0
    ELSE LET n == CHOOSE x \in heap : TRUE
         IN  n.frequency + SumFrequency(heap \ {n})

\* Leaf or two-child node all the way down, each internal frequency the sum
\* of its children's.
RECURSIVE WellFormed(_)
WellFormed(n) ==
    IF n.left = None /\ n.right = None
    THEN n.data # None
    ELSE /\ n.data = None
         /\ n.left # None
         /\ n.right # None
         /\ n.frequency = n.left[1].frequency + n.right[1].frequency
         /\ WellFormed(n.left[1])
         /\ WellFormed(n.right[1])

RECURSIVE LeafCount(_)
LeafCount(n) ==
    (IF n.data # None THEN 1 ELSE 0)
    + (IF n.left # None THEN LeafCount(n.left[1]) ELSE 0)
    + (IF n.right # None THEN LeafCount(n.right[1]) ELSE 0)

RECURSIVE LeafValues(_)
LeafValues(n) ==
    (IF n.data # None THEN {n.data[1]} ELSE {})
    \cup (IF n.left # None THEN LeafValues(n.left[1]) ELSE {})
    \cup (IF n.right # None THEN LeafValues(n.right[1]) ELSE {})

RECURSIVE SumLeafCount(_)
SumLeafCount(heap) ==
    IF heap = {} THEN 0
    ELSE LET n == CHOOSE x \in heap : TRUE
         IN  LeafCount(n) + SumLeafCount(heap \ {n})

IsPrefix(s, t) == Len(s) <= Len(t) /\ SubSeq(t, 1, Len(s)) = s

\* The positions inside create_zip at which get_huff_codes has returned.
TableReturned == pc \in {"zip_bytes_with_codes", "serialize"}

\* The positions at which decomp has run on the artifact made from buffer.
Decoded == pc \in {"write_all", "done"}

\* The number of code bits of the whole input under the current table.
TotalBits == Len(ConcatCodes(buffer, huffman_codes))

\* C1: round-trip identity: the bytes decomp returns for the packed bytes and
\* code table that create_zip made from the source are exactly the source
\* bytes, whatever the source and whatever the heap's tie-breaking.
C1_RoundTrip == Decoded => result = buffer

\* C2: a source of n >= 1 copies of one byte value gets a non-empty code for
\* that byte, and decodes back to the same n bytes.
C2_SingleByteValue ==
    Cardinality(Range(buffer)) = 1 =>
        /\ TableReturned => \A b \in DOMAIN huffman_codes : huffman_codes[b] # <<>>
        /\ Decoded => result = buffer

\* C3: compressing an empty source ends in a failure result returned to the
\* caller (EmptyInputError), and no compressed file is written.
C3_EmptyInputReported ==
    (buffer = <<>> /\ outcome # "running") =>
        /\ outcome = "EmptyInputError"
        /\ dst_compressed = None

\* C4: two runs on the same source that differ only in the order in which
\* equal-weight nodes leave the heap restore identical files.
C4_SameOutputTwice ==
    (pc = "done" /\ earlier # None) => dst_decompressed = earlier

\* C5: the code table is a prefix code with one entry per byte value of the
\* source: no byte's code is a prefix of another byte's code.
C5_PrefixCode ==
    TableReturned =>
        /\ DOMAIN huffman_codes = Range(buffer)
        /\ \A a \in DOMAIN huffman_codes : \A b \in DOMAIN huffman_codes :
              a # b => ~IsPrefix(huffman_codes[a], huffman_codes[b])

C5_Witness ==
    /\ pc = "zip_bytes_with_codes"
    /\ Cardinality(DOMAIN huffman_codes) >= 3

\* C6: weight conservation: throughout the combine loop every internal node's
\* frequency is the sum of its children's and the heap's frequencies add up to
\* the source length; the root's frequency is the source length and the tree
\* has exactly one leaf per distinct byte value of the source.
C6_WeightConservation ==
    /\ pc = "create_huffman_tree" =>
          /\ \A n \in nodes : WellFormed(n)
          /\ SumFrequency(nodes) = Len(buffer)
          /\ SumLeafCount(nodes) = Cardinality(Range(buffer))
    /\ root # None =>
          /\ WellFormed(root[1])
          /\ root[1].frequency = Len(buffer)
          /\ LeafCount(root[1]) = Cardinality(Range(buffer))
          /\ LeafValues(root[1]) = Range(buffer)

C6_Witness ==
    /\ root # None
    /\ root[1].data = None
    /\ \/ root[1].left[1].data = None
       \/ root[1].right[1].data = None

\* C7: with at least two distinct byte values, a byte value that occurs
\* strictly more often than another never has the longer code; for the source
\* "aaabc" byte 0x61 has a 1-bit code, 0x62 and 0x63 have 2-bit codes, and the
\* packed output is at most 2 bytes.
C7_CodeLengths ==
    (TableReturned /\ Cardinality(Range(buffer)) >= 2) =>
        /\ LET freq_map == FreqMap(buffer)
           IN  \A a \in DOMAIN huffman_codes : \A b \in DOMAIN huffman_codes :
                  freq_map[a] > freq_map[b]
                      => Len(huffman_codes[a]) <= Len(huffman_codes[b])
        /\ buffer = <<97, 97, 97, 98, 99>> =>
              /\ Len(huffman_codes[97]) = 1
              /\ Len(huffman_codes[98]) = 2
              /\ Len(huffman_codes[99]) = 2
              /\ pc = "serialize" => Len(huffman_bytes) <= 2

C7_Witness ==
    /\ buffer = <<97, 97, 97, 98, 99>>
    /\ pc = "serialize"
    /\ Len(huffman_bytes) = 1

\* C8: a scan that ends with a candidate code matching no table entry, or with
\* fewer bytes emitted than were encoded, ends the operation in a failure and
\* not in a normal return with the bytes decoded so far.
C8_DecodeMismatchSurfaced ==
    (pc = "done" /\ (current_code # <<>> \/ Len(result) < Len(buffer)))
        => outcome # "returned"

\* C9: the packed stream has ceil(T/8) bytes for T code bits; read most
\* significant bit first, its first T bits are the codes of the source bytes in
\* order and the remaining bits, all zero, are the low-order end of the last byte.
C9_PackedLayout ==
    pc = "serialize" =>
        LET bits == BitString(huffman_bytes)
        IN  /\ Len(huffman_bytes) = (TotalBits + 7) \div 8
            /\ Len(bits) >= TotalBits
            /\ SubSeq(bits, 1, TotalBits) = ConcatCodes(buffer, huffman_codes)
            /\ \A i \in (TotalBits + 1) .. Len(bits) : bits[i] = "0"

\* C10: decomp emits exactly as many bytes as the source holds: no byte comes
\* from matching a code against the padding bits of the last packed byte.
C10_StopsAtByteCount == Decoded => Len(result) = Len(buffer)

====
